---------------------------- MODULE Spec2Model ----------------------------
(***************************************************************************)
(* Model of the lexer front end of oas-lint-rs: the position-tracking      *)
(* character Stream (src/src/parser/stream.rs) and the Scanner built on it *)
(* (src/src/parser/scanner.rs).                                            *)
(*                                                                         *)
(* A Rust Option<T> is modelled as a sequence of length at most one:      *)
(* None is <<>> and Some(x) is <<x>>.                                      *)
(***************************************************************************)
EXTENDS Integers, Sequences, FiniteSets, TLC

VARIABLES
    data,             \* the input text, a sequence of characters
    stream,           \* the Stream: char_indices, col, offset, line, peek, had_linebreak
    peeked_char,      \* Scanner.peeked_char : Option<char>
    in_double_quote,  \* Scanner.in_double_quote
    in_single_quote,  \* Scanner.in_single_quote
    calls,            \* number of next() calls made by the consumer so far
    ret,              \* value returned by the most recent next() call
    last_c,           \* the Option<char> the most recent Scanner.next() matched on
    last_pos,         \* the Position the most recent Scanner.next() recorded for it
    pos_seen,         \* what get_position() last returned to the consumer, since the last next()
    reads,            \* number of get_position() calls by the consumer since the last next()
    hist              \* the Some(..) values returned so far, in order

vars == <<data, stream, peeked_char, in_double_quote, in_single_quote,
          calls, ret, last_c, last_pos, pos_seen, reads, hist>>

---------------------------------------------------------------------------
(* Bounds of the model *)

MaxStreamLen == 5
MaxLen == 3
MaxExtraCalls == 2
MaxReads == 2

---------------------------------------------------------------------------
(* Characters.  Each is a symbol; Utf8Len gives its encoded length. *)

CR == "CR"
LF == "LF"
SP == "SP"
DQ == "DQ"
SQ == "SQ"
COLON == "COLON"
QMARK == "QMARK"
DASH == "DASH"
LBRACE == "LBRACE"
RBRACE == "RBRACE"
LSQ == "LSQ"
RSQ == "RSQ"
LETTER == "A"
EMOJI == "EMOJI"

StreamChars == {LETTER, EMOJI, CR, LF}

Chars == {LETTER, EMOJI, CR, LF, SP, DQ, SQ, COLON, QMARK, DASH,
          LBRACE, RBRACE, LSQ, RSQ}

Utf8Len(ch) == IF ch = EMOJI THEN 4 ELSE 1

Strings(S, n) == UNION {[1..k -> S] : k \in 0..n}

None == <<>>
Some(x) == <<x>>
Unwrap(o) == o[1]

---------------------------------------------------------------------------
(* Position and Stream *)

Position(offset, line, col) == [offset |-> offset, line |-> line, col |-> col]

\* str::char_indices(): the iterator keeps the byte offset of its front and
\* the characters still to come.
char_indices(text) == [front_offset |-> 0, iter |-> text]

\* CharIndices::next(): yields (byte offset, char) and advances the front
\* by the encoded length of the character; exhausted, it keeps yielding None.
char_indices_next(it) ==
    IF it.iter = <<>>
    THEN [it |-> it, r |-> None]
    ELSE [it |-> [front_offset |-> it.front_offset + Utf8Len(Head(it.iter)),
                  iter |-> Tail(it.iter)],
          r |-> Some(<<it.front_offset, Head(it.iter)>>)]

\* Mutant: the column starts at 1 instead of 0.
Stream_new_col_one(text) ==
    [char_indices |-> char_indices(text),
     col |-> 1,
     offset |-> 0,
     line |-> 1,
     peek |-> None,
     had_linebreak |-> FALSE]

Stream_new(text) ==
    [char_indices |-> char_indices(text),
     col |-> 0,
     offset |-> 0,
     line |-> 1,
     peek |-> None,
     had_linebreak |-> FALSE]

get_position(s) == Position(s.offset, s.line, s.col)

\* Mutant: a fresh pair is pulled (and dropped) although the slot holds one.
next_internal_pulls_anyway(s) ==
    LET n == char_indices_next(s.char_indices)
    IN IF s.peek = None
       THEN [s |-> [s EXCEPT !.char_indices = n.it], r |-> n.r]
       ELSE [s |-> [s EXCEPT !.char_indices = n.it, !.peek = None], r |-> s.peek]

next_internal(s) ==
    IF s.peek = None
    THEN LET n == char_indices_next(s.char_indices)
         IN [s |-> [s EXCEPT !.char_indices = n.it], r |-> n.r]
    ELSE [s |-> [s EXCEPT !.peek = None], r |-> s.peek]

\* Mutant: offset counts characters instead of bytes.
update_pos_char_offset(s, offset) ==
    IF s.had_linebreak
    THEN [s EXCEPT !.offset = IF s.col = 0 THEN 0 ELSE s.offset + 1,
                   !.line = @ + 1, !.col = 1, !.had_linebreak = FALSE]
    ELSE [s EXCEPT !.offset = IF s.col = 0 THEN 0 ELSE s.offset + 1,
                   !.col = @ + 1]

\* Mutant: the column is not reset when a new line starts.
update_pos_no_col_reset(s, offset) ==
    IF s.had_linebreak
    THEN [s EXCEPT !.offset = offset, !.line = @ + 1, !.col = @ + 1,
                   !.had_linebreak = FALSE]
    ELSE [s EXCEPT !.offset = offset, !.col = @ + 1]

\* Mutant: the offset restarts at every line (an offset into the line).
update_pos_line_offset(s, offset) ==
    IF s.had_linebreak
    THEN [s EXCEPT !.offset = 0, !.line = @ + 1, !.col = 1,
                   !.had_linebreak = FALSE]
    ELSE [s EXCEPT !.offset = offset, !.col = @ + 1]

update_pos(s, offset) ==
    LET s1 == [s EXCEPT !.offset = offset]
    IN IF s1.had_linebreak
       THEN [s1 EXCEPT !.line = @ + 1, !.col = 1, !.had_linebreak = FALSE]
       ELSE [s1 EXCEPT !.col = @ + 1]

\* Mutant: the character looked at after a '\r' is dropped, not pushed back.
cr_arm_no_pushback(s, i) ==
    LET s1 == update_pos(s, i)
        n  == next_internal(s1)
    IN [s |-> [n.s EXCEPT !.had_linebreak = TRUE], r |-> Some(LF)]

\* Mutant: a '\n' after a '\r' is pushed back like any other character.
cr_arm_lf_pushback(s, i) ==
    LET s1 == update_pos(s, i)
        n  == next_internal(s1)
    IN IF n.r = None
       THEN [s |-> [n.s EXCEPT !.had_linebreak = TRUE], r |-> Some(LF)]
       ELSE [s |-> [n.s EXCEPT !.peek = n.r, !.had_linebreak = TRUE],
             r |-> Some(LF)]

\* Stream::next, arm Some((i, '\r'))
cr_arm(s, i) ==
    LET s1 == update_pos(s, i)
        n  == next_internal(s1)
    IN IF n.r # None /\ Unwrap(n.r)[2] = LF
       THEN [s |-> [n.s EXCEPT !.had_linebreak = TRUE], r |-> Some(LF)]
       ELSE IF n.r # None
       THEN [s |-> [n.s EXCEPT !.peek = Some(<<Unwrap(n.r)[1], Unwrap(n.r)[2]>>),
                               !.had_linebreak = TRUE],
             r |-> Some(LF)]
       ELSE [s |-> [n.s EXCEPT !.had_linebreak = TRUE], r |-> Some(LF)]

\* Stream::next, arm Some((i, '\n'))
lf_arm(s, i) ==
    [s |-> [update_pos(s, i) EXCEPT !.had_linebreak = TRUE], r |-> Some(LF)]

\* Stream::next, arm Some((i, c))
char_arm(s, i, c) == [s |-> update_pos(s, i), r |-> Some(c)]

\* Mutant: the position is advanced before the end of input is noticed.
none_arm_advances(s) == [s |-> update_pos(s, s.offset + 1), r |-> None]

\* Stream::next, arm None
none_arm(s) == [s |-> s, r |-> None]

Stream_next(s) ==
    LET n == next_internal(s)
    IN IF n.r = None THEN none_arm(n.s)
       ELSE LET i == Unwrap(n.r)[1]
                c == Unwrap(n.r)[2]
            IN IF c = CR THEN cr_arm(n.s, i)
               ELSE IF c = LF THEN lf_arm(n.s, i)
               ELSE char_arm(n.s, i, c)

---------------------------------------------------------------------------
(* The Stream driven directly by a consumer *)

StreamInit ==
    /\ data \in Strings(StreamChars, MaxStreamLen)
    /\ stream = Stream_new(data)
    /\ peeked_char = None
    /\ in_double_quote = FALSE
    /\ in_single_quote = FALSE
    /\ calls = 0
    /\ ret = None
    /\ last_c = None
    /\ last_pos = None
    /\ pos_seen = None
    /\ reads = 0
    /\ hist = <<>>

\* One call of Stream::next by the consumer, which then reads get_position().
StreamCall ==
    /\ calls < Len(data) + MaxExtraCalls
    /\ LET n == Stream_next(stream)
       IN /\ stream' = n.s
          /\ ret' = n.r
          /\ hist' = IF n.r = None THEN hist
                     ELSE Append(hist, [c |-> Unwrap(n.r), pos |-> get_position(n.s)])
    /\ calls' = calls + 1
    /\ pos_seen' = None
    /\ reads' = 0
    /\ UNCHANGED <<data, peeked_char, in_double_quote, in_single_quote,
                   last_c, last_pos>>

\* One call of Stream::get_position by the consumer (&self: no field is
\* written).
GetPosition ==
    /\ reads < MaxReads
    /\ pos_seen' = Some(get_position(stream))
    /\ reads' = reads + 1
    /\ UNCHANGED <<data, stream, peeked_char, in_double_quote, in_single_quote,
                   calls, ret, last_c, last_pos, hist>>

StreamNextRel == StreamCall \/ GetPosition

StreamSpec == StreamInit /\ [][StreamNextRel]_vars


---------------------------------------------------------------------------
(* Token, TokenType and Scanner *)

Spaces(count) == [type |-> "Spaces", count |-> count]
QuestionMark == [type |-> "QuestionMark"]
Dash == [type |-> "Dash"]
Newline == [type |-> "Newline"]
Colon == [type |-> "Colon"]
LeftBraket == [type |-> "LeftBraket"]
RightBraket == [type |-> "RightBraket"]
LeftSqBraket == [type |-> "LeftSqBraket"]
RightSqBraket == [type |-> "RightSqBraket"]
DoubleQuote == [type |-> "DoubleQuote"]
SingleQuote == [type |-> "SingleQuote"]
String(text) == [type |-> "String", text |-> text]

Token(pos, content) == [pos |-> pos, content |-> content]

create_token(pos, content) == Some(Token(pos, content))

\* The result of one Scanner::next call: the Scanner's fields after it and
\* the value returned.
Outcome(s, pk, dq, sq, tok) ==
    [s |-> s, peeked |-> pk, dq |-> dq, sq |-> sq, tok |-> tok]

\* Mutant: a character is pulled from the Stream whatever the slot holds.
acquire_ignores_pushback(pk, s) ==
    LET n == Stream_next(s)
    IN [c |-> n.r, pos |-> get_position(n.s), s |-> n.s, peeked |-> pk]

\* Scanner::next, the character acquisition: a pending pushed-back character
\* is taken, otherwise one is pulled from the Stream; the position is read
\* from the Stream afterwards in both cases.
acquire(pk, s) ==
    IF pk # None
    THEN [c |-> pk, pos |-> get_position(s), s |-> s, peeked |-> None]
    ELSE LET n == Stream_next(s)
         IN [c |-> n.r, pos |-> get_position(n.s), s |-> n.s, peeked |-> pk]

\* Mutant: only the double-quote flag counts as being inside a quote.
in_quote_double_only(dq, sq) == dq

in_quote(dq, sq) == dq \/ sq

\* Scanner::create_indent: the while loop, from a Stream s with count spaces
\* counted so far.
RECURSIVE indent_loop(_, _, _)
indent_loop(s, pk, count) ==
    LET n == Stream_next(s)
    IN IF n.r = None THEN [s |-> n.s, peeked |-> pk, count |-> count]
       ELSE IF Unwrap(n.r) # SP
       THEN [s |-> n.s, peeked |-> Some(Unwrap(n.r)), count |-> count]
       ELSE indent_loop(n.s, pk, count + 1)

\* Mutant: the first space is not counted.
create_indent_from_zero(s, pk, dq, sq, pos) ==
    LET l == indent_loop(s, pk, 0)
    IN Outcome(l.s, l.peeked, dq, sq, create_token(pos, Spaces(l.count)))

create_indent(s, pk, dq, sq, pos) ==
    LET l == indent_loop(s, pk, 1)
    IN Outcome(l.s, l.peeked, dq, sq, create_token(pos, Spaces(l.count)))

\* Mutant: the closing delimiter does not clear the flag.
quote_arms_no_close(cc, inq, dq, sq) ==
    IF cc = DQ /\ ~inq THEN [dq |-> TRUE, sq |-> sq, content |-> Some(DoubleQuote)]
    ELSE IF cc = DQ /\ dq THEN [dq |-> dq, sq |-> sq, content |-> Some(DoubleQuote)]
    ELSE IF cc = SQ /\ ~inq THEN [dq |-> dq, sq |-> TRUE, content |-> Some(SingleQuote)]
    ELSE IF cc = SQ /\ sq THEN [dq |-> dq, sq |-> sq, content |-> Some(SingleQuote)]
    ELSE [dq |-> dq, sq |-> sq, content |-> None]

\* Mutant: a delimiter met inside any quote closes whatever quote is open.
quote_arms_close_any(cc, inq, dq, sq) ==
    IF cc = DQ /\ ~inq THEN [dq |-> TRUE, sq |-> sq, content |-> Some(DoubleQuote)]
    ELSE IF cc = DQ /\ inq THEN [dq |-> FALSE, sq |-> FALSE, content |-> Some(DoubleQuote)]
    ELSE IF cc = SQ /\ ~inq THEN [dq |-> dq, sq |-> TRUE, content |-> Some(SingleQuote)]
    ELSE IF cc = SQ /\ inq THEN [dq |-> FALSE, sq |-> FALSE, content |-> Some(SingleQuote)]
    ELSE [dq |-> dq, sq |-> sq, content |-> None]

\* Scanner::next, the four quote arms: the token content of the arm that
\* matches, if one does, and the flags after it.
quote_arms(cc, inq, dq, sq) ==
    IF cc = DQ /\ ~inq THEN [dq |-> TRUE, sq |-> sq, content |-> Some(DoubleQuote)]
    ELSE IF cc = DQ /\ dq THEN [dq |-> FALSE, sq |-> sq, content |-> Some(DoubleQuote)]
    ELSE IF cc = SQ /\ ~inq THEN [dq |-> dq, sq |-> TRUE, content |-> Some(SingleQuote)]
    ELSE IF cc = SQ /\ sq THEN [dq |-> dq, sq |-> FALSE, content |-> Some(SingleQuote)]
    ELSE [dq |-> dq, sq |-> sq, content |-> None]

\* Mutant: the colon arm has lost its guard.
punctuation_arms_colon_unguarded(cc, inq) ==
    IF cc = COLON THEN Some(Colon)
    ELSE IF cc = QMARK /\ ~inq THEN Some(QuestionMark)
    ELSE IF cc = DASH /\ ~inq THEN Some(Dash)
    ELSE IF cc = LBRACE /\ ~inq THEN Some(LeftBraket)
    ELSE IF cc = RBRACE /\ ~inq THEN Some(RightBraket)
    ELSE IF cc = LSQ /\ ~inq THEN Some(LeftSqBraket)
    ELSE IF cc = RSQ /\ ~inq THEN Some(RightSqBraket)
    ELSE None

\* Mutant: the two brace tokens are swapped.
punctuation_arms_braces_swapped(cc, inq) ==
    IF cc = COLON /\ ~inq THEN Some(Colon)
    ELSE IF cc = QMARK /\ ~inq THEN Some(QuestionMark)
    ELSE IF cc = DASH /\ ~inq THEN Some(Dash)
    ELSE IF cc = LBRACE /\ ~inq THEN Some(RightBraket)
    ELSE IF cc = RBRACE /\ ~inq THEN Some(LeftBraket)
    ELSE IF cc = LSQ /\ ~inq THEN Some(LeftSqBraket)
    ELSE IF cc = RSQ /\ ~inq THEN Some(RightSqBraket)
    ELSE None

\* Scanner::next, the seven punctuation arms: the token content of the arm
\* that matches, if one does.
punctuation_arms(cc, inq) ==
    IF cc = COLON /\ ~inq THEN Some(Colon)
    ELSE IF cc = QMARK /\ ~inq THEN Some(QuestionMark)
    ELSE IF cc = DASH /\ ~inq THEN Some(Dash)
    ELSE IF cc = LBRACE /\ ~inq THEN Some(LeftBraket)
    ELSE IF cc = RBRACE /\ ~inq THEN Some(RightBraket)
    ELSE IF cc = LSQ /\ ~inq THEN Some(LeftSqBraket)
    ELSE IF cc = RSQ /\ ~inq THEN Some(RightSqBraket)
    ELSE None

\* Mutant: a space starts an indentation run at any column.
indent_arm_applies_any_col(cc, pos) == cc = SP

\* Scanner::next, the guard of the indentation arm.
indent_arm_applies(cc, pos) == cc = SP /\ pos.col = 1

\* Mutant: the newline arm is missing.
newline_arm_missing(cc) == None

\* Scanner::next, the newline arm: it has no guard.
newline_arm(cc) == IF cc = LF THEN Some(Newline) ELSE None

\* Mutant: the unhandled character is kept for the next call.
other_arm_keeps_char(cc, s, pk, dq, sq) == Outcome(s, Some(cc), dq, sq, None)

\* Scanner::next, the arm `_ => None` for a character no other arm matches.
other_arm(cc, s, pk, dq, sq) == Outcome(s, pk, dq, sq, None)

\* Scanner::next, the match on c (first matching arm wins).
classify(c, pos, s, pk, dq, sq) ==
    LET inq == in_quote(dq, sq)
    IN IF c = None THEN Outcome(s, pk, dq, sq, None)
       ELSE LET cc == Unwrap(c)
                q  == quote_arms(cc, inq, dq, sq)
                p  == punctuation_arms(cc, inq)
                nl == newline_arm(cc)
            IN IF indent_arm_applies(cc, pos) THEN create_indent(s, pk, dq, sq, pos)
               ELSE IF q.content # None
               THEN Outcome(s, pk, q.dq, q.sq, create_token(pos, Unwrap(q.content)))
               ELSE IF p # None THEN Outcome(s, pk, dq, sq, create_token(pos, Unwrap(p)))
               ELSE IF nl # None THEN Outcome(s, pk, dq, sq, create_token(pos, Unwrap(nl)))
               ELSE other_arm(cc, s, pk, dq, sq)

---------------------------------------------------------------------------
(* The Scanner driven by a consumer *)

\* Scanner::new
Init ==
    /\ data \in Strings(Chars, MaxLen)
    /\ stream = Stream_new(data)
    /\ peeked_char = None
    /\ in_double_quote = FALSE
    /\ in_single_quote = FALSE
    /\ calls = 0
    /\ ret = None
    /\ last_c = None
    /\ last_pos = None
    /\ pos_seen = None
    /\ reads = 0
    /\ hist = <<>>

\* One call of Scanner::next by the consumer.
Scanner_next ==
    /\ calls < Len(data) + MaxExtraCalls
    /\ LET a == acquire(peeked_char, stream)
           o == classify(a.c, a.pos, a.s, a.peeked, in_double_quote, in_single_quote)
       IN /\ stream' = o.s
          /\ peeked_char' = o.peeked
          /\ in_double_quote' = o.dq
          /\ in_single_quote' = o.sq
          /\ ret' = o.tok
          /\ last_c' = a.c
          /\ last_pos' = Some(a.pos)
          /\ hist' = IF o.tok = None THEN hist ELSE Append(hist, Unwrap(o.tok))
    /\ calls' = calls + 1
    /\ UNCHANGED <<data, pos_seen, reads>>

Next == Scanner_next

Spec == Init /\ [][Next]_vars

---------------------------------------------------------------------------
(* Reference definitions used to state the properties of the Stream *)

Last(q) == q[Len(q)]

HistChars == [k \in 1..Len(hist) |-> hist[k].c]

HistOffsets == [k \in 1..Len(hist) |-> hist[k].pos.offset]

\* The text with every "\r\n" pair and every lone '\r' replaced by one '\n'.
RECURSIVE Normalize(_)
Normalize(t) ==
    IF t = <<>> THEN <<>>
    ELSE IF Head(t) = CR
    THEN IF Len(t) >= 2 /\ t[2] = LF
         THEN <<LF>> \o Normalize(SubSeq(t, 3, Len(t)))
         ELSE <<LF>> \o Normalize(Tail(t))
    ELSE <<Head(t)>> \o Normalize(Tail(t))

\* The byte offsets, in the text, of the raw characters that begin a logical
\* character (every character but a '\n' that follows a '\r'); o is the byte
\* offset of the head of t.
RECURSIVE RawOffsets(_, _)
RawOffsets(t, o) ==
    IF t = <<>> THEN <<>>
    ELSE IF Head(t) = CR /\ Len(t) >= 2 /\ t[2] = LF
    THEN <<o>> \o RawOffsets(SubSeq(t, 3, Len(t)), o + 2)
    ELSE <<o>> \o RawOffsets(Tail(t), o + Utf8Len(Head(t)))

RECURSIVE ByteLen(_)
ByteLen(t) == IF t = <<>> THEN 0 ELSE Utf8Len(Head(t)) + ByteLen(Tail(t))

LineBreakFree(t) == \A k \in 1..Len(t) : t[k] \notin {CR, LF}

LineEndings == {<<LF>>, <<CR>>, <<CR, LF>>}

\* What a text w without line breaks, followed by one line ending, must
\* produce: its characters on line 1 at their byte offsets, then one '\n'.
Canon(w) ==
    [k \in 1..(Len(w) + 1) |->
        IF k <= Len(w)
        THEN [c |-> w[k], pos |-> Position(ByteLen(SubSeq(w, 1, k - 1)), 1, k)]
        ELSE [c |-> LF, pos |-> Position(ByteLen(w), 1, Len(w) + 1)]]

StreamEnded == calls > 0 /\ ret = None

---------------------------------------------------------------------------
(* Properties of the Stream, checked under StreamSpec *)

\* C1: the characters returned by successive Stream.next() calls, up to the
\* first None, are the input with each "\r\n" and each lone '\r' replaced by
\* one '\n' and every other character unchanged, in order, none lost or
\* duplicated.
C1_NormalizedCharacters ==
    /\ Len(hist) <= Len(Normalize(data))
    /\ HistChars = SubSeq(Normalize(data), 1, Len(hist))
    /\ StreamEnded => HistChars = Normalize(data)

C1_Witness ==
    /\ StreamEnded
    /\ data = <<CR, LETTER, CR, LF, LF>>
    /\ HistChars = <<LF, LETTER, LF, LF>>

\* C2: after a Stream.next() call that returns a character, the first
\* character is at line 1, col 1; a character that follows a logical '\n' is
\* on the next line at col 1; any other is on the same line, one column on.
C2_LineColStep ==
    [][(calls' = calls + 1 /\ ret' # None) =>
          IF calls = 0
          THEN stream'.line = 1 /\ stream'.col = 1
          ELSE IF ret = Some(LF)
          THEN stream'.line = stream.line + 1 /\ stream'.col = 1
          ELSE stream'.line = stream.line /\ stream'.col = stream.col + 1]_vars

C2_Witness ==
    /\ Len(hist) = 4
    /\ HistChars = <<LETTER, LF, LETTER, LETTER>>
    /\ hist[2].pos.line = 1 /\ hist[2].pos.col = 2
    /\ hist[3].pos.line = 2 /\ hist[3].pos.col = 1
    /\ hist[4].pos.line = 2 /\ hist[4].pos.col = 2

\* C3: the offset after a Stream.next() call that returns a character is the
\* byte offset in the input of the raw character that produced it (for a
\* "\r\n" pair, that of the '\r'), and line/col advance by one step whatever
\* the byte length of the character.
C3_ExactByteOffsets ==
    /\ Len(hist) <= Len(RawOffsets(data, 0))
    /\ HistOffsets = SubSeq(RawOffsets(data, 0), 1, Len(hist))
    /\ hist # <<>> /\ ret # None => get_position(stream) = Last(hist).pos
    /\ \A k \in 1..(Len(hist) - 1) :
          \/ /\ hist[k + 1].pos.line = hist[k].pos.line
             /\ hist[k + 1].pos.col = hist[k].pos.col + 1
          \/ /\ hist[k + 1].pos.line = hist[k].pos.line + 1
             /\ hist[k + 1].pos.col = 1

C3_Witness ==
    /\ data = <<EMOJI, CR, LF, EMOJI>>
    /\ Len(hist) = 3
    /\ hist[1] = [c |-> EMOJI, pos |-> Position(0, 1, 1)]
    /\ hist[2] = [c |-> LF, pos |-> Position(4, 1, 2)]
    /\ hist[3] = [c |-> EMOJI, pos |-> Position(6, 2, 1)]

\* C4: a text w without line breaks followed by "\n", by "\r" or by "\r\n"
\* yields the same (character, offset, line, col) tuples, which depend on w
\* alone, and then end of input.
C4_Confluence ==
    \A e \in LineEndings :
        LET w == SubSeq(data, 1, Len(data) - Len(e))
        IN (Len(data) >= Len(e) /\ data = w \o e /\ LineBreakFree(w)) =>
              /\ calls <= Len(w) + 1 => hist = SubSeq(Canon(w), 1, calls)
              /\ calls > Len(w) + 1 => hist = Canon(w) /\ ret = None

C4_Witness ==
    /\ data = <<LETTER, LETTER, CR, LF>>
    /\ StreamEnded
    /\ hist = << [c |-> LETTER, pos |-> Position(0, 1, 1)],
                 [c |-> LETTER, pos |-> Position(1, 1, 2)],
                 [c |-> LF, pos |-> Position(2, 1, 3)] >>

\* C5: the offsets reported after successive character-returning
\* Stream.next() calls never decrease, the line never decreases, and the
\* line is at least 1 in every state.
C5_OffsetsNeverDecrease ==
    /\ stream.line >= 1
    /\ \A k \in 1..(Len(hist) - 1) :
          /\ hist[k].pos.offset <= hist[k + 1].pos.offset
          /\ hist[k].pos.line <= hist[k + 1].pos.line

C5_Witness ==
    /\ data = <<LETTER, CR, LF, EMOJI, LF>>
    /\ HistOffsets = <<0, 1, 3, 7>>
    /\ stream.line = 2

\* C6: once Stream.next() has returned None, every later call returns None
\* and get_position() stays the position of the last produced character.
C6_EndIsAbsorbing ==
    /\ [][StreamEnded =>
             ret' = None /\ get_position(stream') = get_position(stream)]_vars
    /\ [](StreamEnded /\ hist # <<>> => get_position(stream) = Last(hist).pos)

C6_Witness ==
    /\ StreamEnded
    /\ calls = Len(hist) + MaxExtraCalls
    /\ data = <<LETTER, CR>>
    /\ get_position(stream) = Position(1, 1, 2)


---------------------------------------------------------------------------
(* Properties of the Scanner, checked under Spec *)

StructuralTypes ==
    {"Colon", "QuestionMark", "Dash", "LeftBraket", "RightBraket",
     "LeftSqBraket", "RightSqBraket"}

PunctuationChars == {COLON, QMARK, DASH, LBRACE, RBRACE, LSQ, RSQ}

\* The number of tokens of the given type returned so far.
CountTokens(type) == Cardinality({k \in 1..Len(hist) : hist[k].content.type = type})

ReturnedType(r) == IF r = None THEN "None" ELSE Unwrap(r).content.type

\* C7: once Scanner.next() has returned None, every later Scanner.next()
\* call returns None as well.
C7_ScannerEndIsAbsorbing ==
    [][(calls > 0 /\ ret = None) => ret' = None]_vars

\* C8: at most one of in_double_quote and in_single_quote is true.
C8_AtMostOneQuoteOpen == ~(in_double_quote /\ in_single_quote)

C8_Witness ==
    /\ in_single_quote
    /\ ~in_double_quote
    /\ last_c = Some(DQ)
    /\ calls = 2

\* C9: a double quote classified while no quote is open returns DoubleQuote
\* and sets in_double_quote; classified while in_double_quote is set it
\* returns DoubleQuote and clears it; likewise the single quote.  So the
\* double-quote flag is set exactly after an odd number of DoubleQuote
\* tokens, and the Scanner is unquoted again after the second of a pair.
C9_QuoteTogglingSymmetric ==
    /\ [][/\ (last_c' = Some(DQ) /\ ~in_double_quote /\ ~in_single_quote) =>
                (ReturnedType(ret') = "DoubleQuote" /\ in_double_quote' /\ ~in_single_quote')
          /\ (last_c' = Some(DQ) /\ in_double_quote) =>
                (ReturnedType(ret') = "DoubleQuote" /\ ~in_double_quote' /\ ~in_single_quote')
          /\ (last_c' = Some(SQ) /\ ~in_double_quote /\ ~in_single_quote) =>
                (ReturnedType(ret') = "SingleQuote" /\ in_single_quote' /\ ~in_double_quote')
          /\ (last_c' = Some(SQ) /\ in_single_quote) =>
                (ReturnedType(ret') = "SingleQuote" /\ ~in_single_quote' /\ ~in_double_quote')
       ]_vars
    /\ [](in_double_quote <=> CountTokens("DoubleQuote") % 2 = 1)
    /\ [](in_single_quote <=> CountTokens("SingleQuote") % 2 = 1)

C9_Witness ==
    /\ data = <<DQ, LETTER, DQ>>
    /\ calls = 3
    /\ CountTokens("DoubleQuote") = 2
    /\ ReturnedType(ret) = "DoubleQuote"
    /\ ~in_double_quote /\ ~in_single_quote

\* C10: a Scanner.next() call made while either quote flag is set never
\* returns a structural token, whatever character it meets.
C10_NoStructuralTokenInQuote ==
    [][(in_double_quote \/ in_single_quote) =>
          ReturnedType(ret') \notin StructuralTypes]_vars

C10_Witness ==
    /\ in_single_quote
    /\ last_c = Some(COLON)
    /\ ret = None
    /\ calls = 2

---------------------------------------------------------------------------
(* Reference definitions used to state the further properties of the Scanner *)

\* The logical characters of a text with their positions, from the text
\* alone: t is what is left, its head at byte offset o, line and col.
RECURSIVE Logical(_, _, _, _)
Logical(t, o, line, col) ==
    IF t = <<>> THEN <<>>
    ELSE IF Head(t) = CR /\ Len(t) >= 2 /\ t[2] = LF
    THEN <<[c |-> LF, pos |-> Position(o, line, col)]>>
         \o Logical(SubSeq(t, 3, Len(t)), o + 2, line + 1, 1)
    ELSE IF Head(t) \in {CR, LF}
    THEN <<[c |-> LF, pos |-> Position(o, line, col)]>>
         \o Logical(Tail(t), o + 1, line + 1, 1)
    ELSE <<[c |-> Head(t), pos |-> Position(o, line, col)]>>
         \o Logical(Tail(t), o + Utf8Len(Head(t)), line, col + 1)

LogicalChars == Logical(data, 0, 1, 1)

\* The number of consecutive spaces in q from index j on.
RECURSIVE SpaceRun(_, _)
SpaceRun(q, j) ==
    IF j > Len(q) \/ q[j].c # SP THEN 0 ELSE 1 + SpaceRun(q, j + 1)

HistOfType(type) == {k \in 1..Len(hist) : hist[k].content.type = type}

\* The most recent Scanner.next() call matched on character ch.
Classified(ch) == calls > 0 /\ last_c = Some(ch)

ClassifiedCol == Unwrap(last_pos).col

---------------------------------------------------------------------------
(* Further properties of the Scanner, checked under Spec *)

\* C11: a space met at column 1 returns one Spaces(count) token positioned
\* at that space, count being that space plus the spaces that immediately
\* follow it, up to the first other character or the end of input.
C11_IndentRunCounted ==
    /\ (Classified(SP) /\ ClassifiedCol = 1) =>
          /\ ReturnedType(ret) = "Spaces"
          /\ Unwrap(ret).pos = Unwrap(last_pos)
    /\ \A k \in HistOfType("Spaces") :
          \E j \in 1..Len(LogicalChars) :
              /\ LogicalChars[j].pos = hist[k].pos
              /\ LogicalChars[j].c = SP
              /\ hist[k].content.count = SpaceRun(LogicalChars, j)

C11_Witness ==
    /\ data = <<SP, SP, SP>>
    /\ calls = 1
    /\ ret = Some(Token(Position(0, 1, 1), Spaces(3)))

\* C12: every Spaces token has pos.col = 1 and count >= 1, and a space
\* classified at another column never produces a Spaces token.
C12_IndentOnlyAtLineStart ==
    /\ \A k \in HistOfType("Spaces") :
          hist[k].pos.col = 1 /\ hist[k].content.count >= 1
    /\ (Classified(SP) /\ ClassifiedCol # 1) => ReturnedType(ret) # "Spaces"

C12_Witness ==
    /\ data = <<LETTER, SP, SP>>
    /\ calls = 3
    /\ Classified(SP)
    /\ ClassifiedCol = 3
    /\ ret = None
    /\ HistOfType("Spaces") = {}

\* C13: for an input of free text only, the first Scanner.next() call
\* returns a token whose content is String carrying the whole text.
C13_FreeTextIsString ==
    (/\ calls = 1
     /\ data # <<>>
     /\ data[1] = LETTER
     /\ \A k \in 1..Len(data) : data[k] \in {LETTER, SP}) =>
        (ret # None /\ Unwrap(ret).content = String(data))

\* The Scanner has nothing left to read.
ScannerExhausted ==
    /\ stream.char_indices.iter = <<>>
    /\ stream.peek = None
    /\ peeked_char = None

LineBreaks(q) == {j \in 1..Len(q) : q[j].c = LF}

\* C14: a logical '\n' always returns a Newline token positioned at that
\* line break, with a quote open or not, and leaves both quote flags as they
\* were; each of "\n", "\r" and "\r\n" of the input yields exactly one
\* Newline token.
C14_NewlineAlways ==
    /\ [](Classified(LF) =>
            /\ ret = Some(Token(Unwrap(last_pos), Newline))
            /\ \E j \in LineBreaks(LogicalChars) :
                  LogicalChars[j].pos = Unwrap(ret).pos)
    /\ [][(calls' = calls + 1 /\ last_c' = Some(LF)) =>
            /\ in_double_quote' = in_double_quote
            /\ in_single_quote' = in_single_quote]_vars
    /\ [](/\ CountTokens("Newline") <= Cardinality(LineBreaks(LogicalChars))
          /\ ScannerExhausted =>
                CountTokens("Newline") = Cardinality(LineBreaks(LogicalChars)))

C14_Witness ==
    /\ data = <<DQ, CR, LF>>
    /\ calls = 2
    /\ in_double_quote
    /\ ret = Some(Token(Position(1, 1, 2), Newline))
    /\ ScannerExhausted

TokenOf(ch) ==
    CASE ch = COLON -> Colon
      [] ch = QMARK -> QuestionMark
      [] ch = DASH -> Dash
      [] ch = LBRACE -> LeftBraket
      [] ch = RBRACE -> RightBraket
      [] ch = LSQ -> LeftSqBraket
      [] ch = RSQ -> RightSqBraket

\* C15: with no quote open each of : ? - { } [ ] returns its own structural
\* token, positioned exactly at the Stream position of that character; the
\* tokens returned have strictly increasing offsets.
C15_PunctuationTokens ==
    /\ [][\A ch \in PunctuationChars :
            (/\ calls' = calls + 1
             /\ ~in_double_quote /\ ~in_single_quote
             /\ last_c' = Some(ch)) =>
                /\ ret' = Some(Token(get_position(stream'), TokenOf(ch)))
                /\ \E j \in 1..Len(LogicalChars) :
                      LogicalChars[j] = [c |-> ch, pos |-> Unwrap(ret').pos]]_vars
    /\ [](\A k \in 1..(Len(hist) - 1) : hist[k].pos.offset < hist[k + 1].pos.offset)

C15_Witness ==
    /\ data = <<EMOJI, LF, LBRACE>>
    /\ calls = 3
    /\ ret = Some(Token(Position(5, 2, 1), LeftBraket))
    /\ Len(hist) = 2

\* The index in q of the logical character at position pos, 0 if none.
IndexAt(q, pos) ==
    IF \E j \in 1..Len(q) : q[j].pos = pos
    THEN CHOOSE j \in 1..Len(q) : q[j].pos = pos
    ELSE 0

\* C16: the character that ended an indentation scan is not lost: while it
\* is pending it is the character right after the run of spaces, at the
\* Stream's position; the next Scanner.next() call classifies exactly it,
\* by the usual rules, at that position, and pulls nothing from the Stream.
C16_IndentStopCharKept ==
    /\ [](peeked_char # None =>
            /\ ReturnedType(ret) = "Spaces"
            /\ Unwrap(peeked_char) # SP
            /\ LET j == IndexAt(LogicalChars, Unwrap(ret).pos) + Unwrap(ret).content.count
               IN /\ j <= Len(LogicalChars)
                  /\ LogicalChars[j] = [c |-> Unwrap(peeked_char),
                                        pos |-> get_position(stream)])
    /\ [][(calls' = calls + 1 /\ peeked_char # None) =>
            /\ last_c' = peeked_char
            /\ last_pos' = Some(get_position(stream))
            /\ stream' = stream
            /\ peeked_char' = None
            /\ ret' # None => Unwrap(ret').pos = get_position(stream)
            /\ peeked_char = Some(LF) => ReturnedType(ret') = "Newline"
            /\ peeked_char \in {Some(LETTER), Some(EMOJI)} => ret' = None
            /\ \A ch \in PunctuationChars :
                  peeked_char = Some(ch) =>
                     ret' = IF in_double_quote \/ in_single_quote
                            THEN None
                            ELSE Some(Token(get_position(stream), TokenOf(ch)))]_vars

C16_Witness ==
    /\ data = <<SP, COLON, LETTER>>
    /\ calls = 2
    /\ ret = Some(Token(Position(1, 1, 2), Colon))
    /\ peeked_char = None
    /\ stream.char_indices.iter = <<LETTER>>

\* C17: both one-slot buffers are drained before anything is pulled: the
\* Stream leaves its cursor alone while its slot holds a pair and hands that
\* pair out first; the Scanner leaves the Stream alone while its own slot
\* holds a character; and a slot that holds an item is emptied, never
\* overwritten, before a later item is put in it.
C17_DrainBeforePull ==
    /\ [](stream.peek # None =>
            LET n == next_internal(stream)
            IN /\ n.r = stream.peek
               /\ n.s.char_indices = stream.char_indices
               /\ n.s.peek = None)
    /\ [][(calls' = calls + 1 /\ peeked_char # None) =>
            /\ stream' = stream
            /\ last_c' = peeked_char
            /\ peeked_char' = None]_vars
    /\ [][(calls' = calls + 1 /\ peeked_char = None /\ stream.peek # None) =>
            /\ Unwrap(last_pos').offset = Unwrap(stream.peek)[1]
            /\ last_c' = Some(IF Unwrap(stream.peek)[2] = CR
                              THEN LF ELSE Unwrap(stream.peek)[2])
            /\ \/ stream'.peek = None
               \/ Unwrap(stream'.peek)[1] > Unwrap(stream.peek)[1]]_vars

C17_Witness ==
    /\ data = <<SP, CR, LETTER>>
    /\ calls = 3
    /\ Classified(LETTER)
    /\ Unwrap(last_pos) = Position(2, 2, 1)
    /\ ScannerExhausted

\* C18: a Scanner.next() call changes in_double_quote only when it returns
\* a DoubleQuote token and in_single_quote only when it returns a
\* SingleQuote token; a single quote met inside an open double quote (or a
\* double quote inside an open single quote) returns nothing and changes
\* neither flag.
C18_FlagsChangeOnlyByOwnDelimiter ==
    [][calls' = calls + 1 =>
          /\ in_double_quote' # in_double_quote => ReturnedType(ret') = "DoubleQuote"
          /\ in_single_quote' # in_single_quote => ReturnedType(ret') = "SingleQuote"
          /\ ((last_c' = Some(SQ) /\ in_double_quote)
                 \/ (last_c' = Some(DQ) /\ in_single_quote)) =>
                /\ ret' = None
                /\ in_double_quote' = in_double_quote
                /\ in_single_quote' = in_single_quote]_vars

C18_Witness ==
    /\ data = <<DQ, SQ, DQ>>
    /\ calls = 2
    /\ Classified(SQ)
    /\ ret = None
    /\ in_double_quote /\ ~in_single_quote

\* The most recent call met ch at column col with the quote flags dq and sq
\* and no arm of the classification matches it.
Unmatched(ch, col, dq, sq) ==
    \/ ch \in {LETTER, EMOJI}
    \/ ch = SP /\ col # 1
    \/ ch \in PunctuationChars /\ (dq \/ sq)
    \/ ch = SQ /\ dq
    \/ ch = DQ /\ sq

---------------------------------------------------------------------------
(* A further property of the Stream, checked under StreamSpec *)

\* C20: Stream.get_position() changes no field of the Stream, consecutive
\* calls return the same Position, and before the first Stream.next() call
\* it returns offset 0, line 1, col 0.
C20_GetPositionPure ==
    /\ [][reads' = reads + 1 =>
            /\ stream' = stream
            /\ pos_seen' = Some(Position(stream.offset, stream.line, stream.col))
            /\ reads > 0 => pos_seen' = pos_seen]_vars
    /\ []((calls = 0 /\ reads > 0) => pos_seen = Some(Position(0, 1, 0)))

C20_Witness ==
    /\ calls = 0
    /\ reads = 2
    /\ data # <<>>
    /\ pos_seen = Some(Position(0, 1, 0))

=============================================================================
